---------------------------- MODULE Spec2Model ----------------------------
(***************************************************************************)
(* Stylometric authorship attribution (src/ultimullll/second.py):          *)
(* add-k smoothed bigram models, log-likelihood-ratio scoring of sliding   *)
(* windows, per-word aggregation and run-length segmentation.              *)
(*                                                                         *)
(* Numbers.  Every score the program computes is a float sum of terms      *)
(* math.log(pA / pB, 2), divided at most once by a window count.  A float  *)
(* score x is kept as the record                                           *)
(*      [p |-> P, q |-> Q, c |-> C, e |-> E]                               *)
(* where log2(P/Q) / C is the value the computation has in exact           *)
(* arithmetic (P, Q, C positive integers, P/Q in lowest terms) and E, one  *)
(* of -1, 0, 1, is the side of that value on which the float lies: the     *)
(* float is the exact value plus E times a rounding error far smaller than *)
(* the distance between any two different exact values of the model.       *)
(* The smoothing constant k and the band half-width eps_neither are        *)
(* integers (eps_neither counted in bits), so a comparison of a float      *)
(* with a band boundary is decided by the exact values and, when they are  *)
(* equal, by E.                                                            *)
(*                                                                         *)
(* Rounding.  math.log(x, 2) is log(x) / log(2) in the platform's libm,    *)
(* and float addition rounds; which way a result is rounded is not fixed   *)
(* by the source.  Every float operation therefore takes the direction d   *)
(* of its rounding as an argument, and the actions choose the directions   *)
(* freely.  The directions are recorded only where they can decide a       *)
(* comparison: in a result whose exact value is a whole number of bits.    *)
(* Results that IEEE arithmetic gives exactly (x / x, 2y / y, 0.0 + x,     *)
(* sums of small whole floats) take no direction.                          *)
(***************************************************************************)
EXTENDS Integers, Sequences, FiniteSets, TLC

VARIABLES
    pc,                \* position of run_analysis
    tokE, tokS, tokA,  \* tokenize(eminescu_text), tokenize(stanescu_text), tokenize(accused_text)
    window, step, k, eps_neither,   \* the configuration run_analysis was given
    modelE, modelS,    \* the trained models
    vocab_union,       \* modelE.vocab | modelS.vocab
    effective_window,
    rows, wlabs, segs, \* window reports, word labels, segments
    raised,            \* the exception that ended the run, or "none"
    call               \* a direct call of one function: its arguments and its result

vars == <<pc, tokE, tokS, tokA, window, step, k, eps_neither, modelE, modelS,
          vocab_union, effective_window, rows, wlabs, segs, raised, call>>

---------------------------------------------------------------------------
(* Bounds and input domains *)

MaxTokens == 4      \* longest token sequence trained on, scanned or segmented
MaxCovered == 3     \* longest token sequence handed to word_level_labels directly
MaxReports == 2     \* longest hand-made list of window reports

Tok == {"a", "b"}   \* tokens: words of letters, never a sentinel
BOS == "<s>"
EOS == "</s>"
Words == Tok \cup {BOS, EOS}

KSet == {-1, 0, 1, 2}        \* smoothing constants, malformed ones included
EpsSet == {-1, 0, 1}        \* band half-widths in bits, a malformed one included
WindowSet == 1 .. MaxTokens + 1
StepSet == -1 .. MaxTokens - 1
Corpora == {<<>>, <<"a">>, <<"b">>, <<"a", "b">>}   \* training token sequences
VSet == 0 .. MaxTokens + 2
ScoreBits == {-3, -1, 0, 1, 3}          \* whole-bit scores of hand-made reports
LabelBits == -4 .. 4                    \* numerators of the scores handed to label
Labels == {"EMINESCU", "STANESCU", "NEITHER"}

SeqsUpTo(S, n) == UNION {[1 .. m -> S] : m \in 0 .. n}

---------------------------------------------------------------------------
(* Python built-ins the program uses *)

Max(a, b) == IF a >= b THEN a ELSE b
Min(a, b) == IF a <= b THEN a ELSE b
Abs(a) == IF a < 0 THEN -a ELSE a

RECURSIVE GCD(_, _)
GCD(a, b) == IF b = 0 THEN a ELSE GCD(b, a % b)

\* Counter(iterable): the count of every element that occurs
Counter(s) ==
    [x \in {s[i] : i \in DOMAIN s} |-> Cardinality({i \in DOMAIN s : s[i] = x})]

\* Counter.__getitem__: a missing key counts 0
Count(counter, key) == IF key \in DOMAIN counter THEN counter[key] ELSE 0

\* zip(seq[:-1], seq[1:])
Bigrams(seq) == [i \in 1 .. Len(seq) - 1 |-> <<seq[i], seq[i + 1]>>]

\* range(start, stop, stp) for stp # 0, as a sequence
range(start, stop, stp) ==
    LET len == IF stp > 0
               THEN IF stop > start THEN (stop - start + stp - 1) \div stp ELSE 0
               ELSE IF stop < start THEN (start - stop - stp - 1) \div (-stp) ELSE 0
    IN [j \in 1 .. len |-> start + (j - 1) * stp]

\* " ".join(words)
RECURSIVE join(_)
join(words) ==
    IF words = <<>> THEN ""
    ELSE IF Len(words) = 1 THEN words[1]
    ELSE words[1] \o " " \o join(Tail(words))

\* tokens[a:b]: a negative bound counts from the end, and both stop at the ends
Slice(tokens, a, b) ==
    LET len == Len(tokens)
        lo == IF a < 0 THEN Max(a + len, 0) ELSE Min(a, len)
        hi == IF b < 0 THEN Max(b + len, 0) ELSE Min(b, len)
    IN IF lo >= hi THEN <<>> ELSE SubSeq(tokens, lo + 1, hi)

---------------------------------------------------------------------------
(* Floats *)

\* the rational n/d, d # 0, in lowest terms with a positive denominator
Ratio(n, d) ==
    LET g == GCD(Abs(n), Abs(d))
        s == IF d < 0 THEN -1 ELSE 1
    IN [num |-> (s * n) \div g, den |-> (s * d) \div g]

\* the directions a rounding can take: below, exact, above
Dir == {-1, 0, 1}

\* the float 0.0
Zero == [p |-> 1, q |-> 1, c |-> 1, e |-> 0]

\* the float of b bits, b an integer: a literal such as 3.0
FromBits(b) == [p |-> IF b >= 0 THEN 2 ^ b ELSE 1, q |-> IF b >= 0 THEN 1 ELSE 2 ^ (-b),
                c |-> 1, e |-> 0]

RECURSIVE IsPow2(_)
IsPow2(m) == m = 1 \/ (m > 1 /\ m % 2 = 0 /\ IsPow2(m \div 2))

\* the exact value of x (c = 1) is a whole number of bits
WholeBits(x) == (x.q = 1 /\ IsPow2(x.p)) \/ (x.p = 1 /\ IsPow2(x.q))

\* the float x (c = 1) is its exact value
Exact(x) == x.e = 0 /\ WholeBits(x)

\* the float of an operation with the exact value log2(P/Q): the value itself when
\* the operation is exact, otherwise rounded in direction d
Rounded(P, Q, exact, d) ==
    LET v == [p |-> P, q |-> Q, c |-> 1, e |-> 0]
    IN [v EXCEPT !.e = IF ~exact /\ WholeBits(v) THEN d ELSE 0]

\* math.log(x, 2) for x = pA / pB = P/Q, P, Q > 0: log(x) / log(2), which is exact
\* for x = 1.0 (0.0 / log(2)) and x = 2.0 (log(2) / log(2))
Log2(P, Q, d) ==
    LET r == Ratio(P, Q)
    IN Rounded(r.num, r.den, r.den = 1 /\ r.num \in {1, 2}, d)

\* the float sum x + y for scores with c = 1
Plus(x, y, d) ==
    LET g == GCD(x.p, y.q)
        h == GCD(y.p, x.q)
    IN IF x = Zero THEN y
       ELSE IF y = Zero THEN x
       ELSE Rounded((x.p \div g) * (y.p \div h), (x.q \div h) * (y.q \div g),
                    Exact(x) /\ Exact(y), d)

\* x / n for a score with c = 1 and a count n > 0; the quotient lies on the side
\* of its exact value the sum does
DivBy(x, n) == [p |-> x.p, q |-> x.q, c |-> n, e |-> x.e]

\* the exact value of x is t bits, t an integer
EqBits(x, t) == IF t >= 0 THEN x.p = (2 ^ (t * x.c)) * x.q
                          ELSE x.p * (2 ^ ((-t) * x.c)) = x.q

\* x > t and x < t for a score x and an integer number of bits t
Gt(x, t) ==
    \/ IF t >= 0 THEN x.p > (2 ^ (t * x.c)) * x.q
                  ELSE x.p * (2 ^ ((-t) * x.c)) > x.q
    \/ EqBits(x, t) /\ x.e > 0
Lt(x, t) ==
    \/ IF t >= 0 THEN x.p < (2 ^ (t * x.c)) * x.q
                  ELSE x.p * (2 ^ ((-t) * x.c)) < x.q
    \/ EqBits(x, t) /\ x.e < 0

\* the rounding directions of the operations named by D: free on T, exact elsewhere
Roundings(D, T) == {[i \in D |-> IF i \in T THEN f[i] ELSE 0] : f \in [T -> Dir]}

\* the direction rnd gives the operations named i
Direction(rnd, i) == IF i \in DOMAIN rnd THEN rnd[i] ELSE 0

\* results: a value, or the exception raised
Ok(v) == [exc |-> "none", val |-> v]
Raise(e) == [exc |-> e, val |-> <<>>]

---------------------------------------------------------------------------
(* BigramModel *)

NoModel == [bigram |-> <<>>, context |-> <<>>, vocab |-> {}, k |-> 0]

\* faulty variant: the context counts include the last element of seq
train_counts_last(tokens, kk) ==
    LET seq == <<BOS>> \o tokens \o <<EOS>>
    IN [bigram |-> Counter(Bigrams(seq)), context |-> Counter(seq),
        vocab |-> {seq[i] : i \in DOMAIN seq}, k |-> kk]

train(tokens, kk) ==
    LET seq == <<BOS>> \o tokens \o <<EOS>>
    IN [bigram |-> Counter(Bigrams(seq)),
        context |-> Counter(SubSeq(seq, 1, Len(seq) - 1)),
        vocab |-> {seq[i] : i \in DOMAIN seq},
        k |-> kk]

\* faulty variant: k is left out of the numerator
prob_unsmoothed_numerator(model, w1, w2, V) ==
    LET n == Count(model.bigram, <<w1, w2>>)
        d == Count(model.context, w1) + model.k * V
    IN IF d = 0 THEN Raise("ZeroDivisionError") ELSE Ok(Ratio(n, d))

\* (bigram[(w1, w2)] + k) / (context[w1] + k * V)
prob(model, w1, w2, V) ==
    LET n == Count(model.bigram, <<w1, w2>>) + model.k
        d == Count(model.context, w1) + model.k * V
    IN IF d = 0 THEN Raise("ZeroDivisionError") ELSE Ok(Ratio(n, d))

---------------------------------------------------------------------------
(* LLRScorer *)

Scorer(mA, mB, vu, eps) ==
    [model_A |-> mA, model_B |-> mB, vocab_union |-> vu, eps_neither |-> eps]

\* the loop of score_window from bigram i on, s the sum so far, d the direction
\* in which the floats of this window are rounded
RECURSIVE score_loop(_, _, _, _, _)
score_loop(scorer, bg, i, s, d) ==
    IF i > Len(bg) THEN Ok(s)
    ELSE LET V == Cardinality(scorer.vocab_union)
             pA == prob(scorer.model_A, bg[i][1], bg[i][2], V)
             pB == prob(scorer.model_B, bg[i][1], bg[i][2], V)
         IN IF pA.exc # "none" THEN pA
            ELSE IF pB.exc # "none" THEN pB
            ELSE IF pB.val.num = 0 THEN Raise("ZeroDivisionError")
            ELSE IF pA.val.num * pB.val.num <= 0 THEN Raise("ValueError")
            ELSE score_loop(scorer, bg, i + 1,
                     Plus(s, Log2(pA.val.num * pB.val.den, pA.val.den * pB.val.num, d),
                          d), d)

score_window(scorer, tokens, d) ==
    score_loop(scorer, Bigrams(<<BOS>> \o tokens \o <<EOS>>), 1, Zero, d)

\* faulty variant: the band boundaries belong to the authors
label_inclusive(scorer, score) ==
    IF ~Lt(score, scorer.eps_neither) THEN "EMINESCU"
    ELSE IF ~Gt(score, -scorer.eps_neither) THEN "STANESCU"
    ELSE "NEITHER"

label(scorer, score) ==
    IF Gt(score, scorer.eps_neither) THEN "EMINESCU"
    ELSE IF Lt(score, -scorer.eps_neither) THEN "STANESCU"
    ELSE "NEITHER"

---------------------------------------------------------------------------
(* sliding_window_scores *)

\* the loop body of sliding_window_scores over the start indices from the j-th on;
\* rnd[i] is the direction in which the score of the window starting at i is rounded
RECURSIVE rows_loop(_, _, _, _, _, _, _)
rows_loop(tokens, scorer, w, starts, j, acc, rnd) ==
    IF j > Len(starts) THEN Ok(acc)
    ELSE LET i == starts[j]
             win == Slice(tokens, i, i + w)
             sc == score_window(scorer, win, Direction(rnd, i))
         IN IF sc.exc # "none" THEN sc
            ELSE rows_loop(tokens, scorer, w, starts, j + 1,
                     Append(acc, [start |-> i, end |-> i + w, score |-> sc.val,
                                  label |-> label(scorer, sc.val),
                                  snippet |-> join(win)]), rnd)

\* faulty variant: the window is not clamped
sliding_window_scores_no_clamp(tokens, scorer, win, stp, rnd) ==
    LET n == Len(tokens)
    IN IF n < 2 THEN Ok(<<>>)
       ELSE IF stp = 0 THEN Raise("ValueError")
       ELSE rows_loop(tokens, scorer, win, range(0, n - win + 1, stp), 1, <<>>, rnd)

\* faulty variant: the last start index is left out
sliding_window_scores_drop_last(tokens, scorer, win, stp, rnd) ==
    LET n == Len(tokens)
    IN IF n < 2 THEN Ok(<<>>)
       ELSE LET w == Max(2, Min(win, n))
            IN IF stp = 0 THEN Raise("ValueError")
               ELSE rows_loop(tokens, scorer, w, range(0, n - w, stp), 1, <<>>, rnd)

\* faulty variant: windows start at every step up to the last token
sliding_window_scores_overrun(tokens, scorer, win, stp, rnd) ==
    LET n == Len(tokens)
    IN IF n < 2 THEN Ok(<<>>)
       ELSE LET w == Max(2, Min(win, n))
            IN IF stp = 0 THEN Raise("ValueError")
               ELSE rows_loop(tokens, scorer, w, range(0, n, stp), 1, <<>>, rnd)

sliding_window_scores(tokens, scorer, win, stp, rnd) ==
    LET n == Len(tokens)
    IN IF n < 2 THEN Ok(<<>>)
       ELSE LET w == Max(2, Min(win, n))
            IN IF stp = 0 THEN Raise("ValueError")   \* range() arg 3 must not be zero
               ELSE rows_loop(tokens, scorer, w, range(0, n - w + 1, stp), 1, <<>>, rnd)

\* what sliding_window_scores can return, over the roundings of its float scores:
\* only the windows whose score takes a direction have one to choose
sliding_window_outcomes(tokens, scorer, win, stp) ==
    LET D == 0 .. Len(tokens) - 1
        up == sliding_window_scores(tokens, scorer, win, stp, [i \in D |-> 1])
        T == IF up.exc # "none" THEN {}
             ELSE {up.val[j].start : j \in {m \in DOMAIN up.val : up.val[m].score.e # 0}}
    IN IF T = {} THEN {up}
       ELSE {sliding_window_scores(tokens, scorer, win, stp, rnd) : rnd \in Roundings(D, T)}

---------------------------------------------------------------------------
(* word_level_labels *)

\* the list index x of a list of length n names (negative indices count from the end)
Index(x, n) == IF x >= 0 THEN x ELSE x + n

\* s after t additions of the score x, rounded in direction d
RECURSIVE PlusTimes(_, _, _, _)
PlusTimes(s, x, t, d) == IF t = 0 THEN s ELSE PlusTimes(Plus(s, x, d), x, t - 1, d)

\* the loop over the windows from the j-th on; sums and cnts are indexed 0 .. n-1;
\* rnd[i] is the direction in which the floats of position i are rounded
RECURSIVE accumulate(_, _, _, _, _, _)
accumulate(windows, j, n, sums, cnts, rnd) ==
    IF j > Len(windows) THEN Ok([sums |-> sums, cnts |-> cnts])
    ELSE LET r == windows[j]
             hits(i) == Cardinality({x \in r.start .. r.end - 1 : Index(x, n) = i})
         IN IF \E x \in r.start .. r.end - 1 : x >= n \/ x < -n
            THEN Raise("IndexError")
            ELSE accumulate(windows, j + 1, n,
                     [i \in 0 .. n - 1 |->
                         PlusTimes(sums[i], r.score, hits(i), Direction(rnd, i))],
                     [i \in 0 .. n - 1 |-> cnts[i] + hits(i)], rnd)

\* faulty variant: a position takes the score of the first window covering it
word_level_labels_first_window(tokens, windows, scorer, rnd) ==
    LET n == Len(tokens)
        first(i) == {j \in DOMAIN windows : windows[j].start <= i /\ i < windows[j].end}
    IN Ok([i \in 1 .. n |->
              label(scorer, IF first(i - 1) # {}
                            THEN windows[CHOOSE j \in first(i - 1) :
                                            \A m \in first(i - 1) : j <= m].score
                            ELSE Zero)])

word_level_labels(tokens, windows, scorer, rnd) ==
    LET n == Len(tokens)
    IN IF n = 0 THEN Ok(<<>>)
       ELSE LET acc == accumulate(windows, 1, n, [i \in 0 .. n - 1 |-> Zero],
                                  [i \in 0 .. n - 1 |-> 0], rnd)
            IN IF acc.exc # "none" THEN acc
               ELSE Ok([i \in 1 .. n |->
                           LET avg == IF acc.val.cnts[i - 1] # 0
                                      THEN DivBy(acc.val.sums[i - 1], acc.val.cnts[i - 1])
                                      ELSE Zero
                           IN label(scorer, avg)])

\* what word_level_labels can return, over the roundings of its float sums: sums
\* of exact scores are exact, and only the positions whose label depends on the
\* direction have one to choose
word_level_outcomes(tokens, windows, scorer) ==
    LET D == 0 .. Len(tokens) - 1
        up == word_level_labels(tokens, windows, scorer, [i \in D |-> 1])
        down == word_level_labels(tokens, windows, scorer, [i \in D |-> -1])
        T == IF up.exc # "none" THEN {} ELSE {i \in D : up.val[i + 1] # down.val[i + 1]}
    IN IF \A j \in DOMAIN windows : Exact(windows[j].score) THEN {up}
       ELSE IF T = {} THEN {up}
       ELSE {word_level_labels(tokens, windows, scorer, rnd) : rnd \in Roundings(D, T)}

---------------------------------------------------------------------------
(* segments *)

Seg(lab, a, b, txt) == [label |-> lab, start |-> a, end |-> b, text |-> txt]

\* the for loop of segments from index i (0-based) on
RECURSIVE seg_loop(_, _, _, _, _, _)
seg_loop(tokens, labels, i, cur, start, segs_) ==
    IF i >= Len(tokens)
    THEN Append(segs_, Seg(cur, start, Len(tokens), join(Slice(tokens, start, Len(tokens)))))
    ELSE IF labels[i + 1] # cur
         THEN seg_loop(tokens, labels, i + 1, labels[i + 1], i,
                       Append(segs_, Seg(cur, start, i, join(Slice(tokens, start, i)))))
         ELSE seg_loop(tokens, labels, i + 1, cur, start, segs_)

\* faulty variant: a new segment starts one position late
RECURSIVE seg_loop_gap(_, _, _, _, _, _)
seg_loop_gap(tokens, labels, i, cur, start, segs_) ==
    IF i >= Len(tokens)
    THEN Append(segs_, Seg(cur, start, Len(tokens), join(Slice(tokens, start, Len(tokens)))))
    ELSE IF labels[i + 1] # cur
         THEN seg_loop_gap(tokens, labels, i + 1, labels[i + 1], i + 1,
                           Append(segs_, Seg(cur, start, i, join(Slice(tokens, start, i)))))
         ELSE seg_loop_gap(tokens, labels, i + 1, cur, start, segs_)

segments_gap(tokens, labels) ==
    IF tokens = <<>> THEN Ok(<<>>)
    ELSE IF Len(labels) < Len(tokens) THEN Raise("IndexError")
    ELSE Ok(seg_loop_gap(tokens, labels, 1, labels[1], 0, <<>>))

\* faulty variant: cur is never updated
RECURSIVE seg_loop_stale(_, _, _, _, _, _)
seg_loop_stale(tokens, labels, i, cur, start, segs_) ==
    IF i >= Len(tokens)
    THEN Append(segs_, Seg(cur, start, Len(tokens), join(Slice(tokens, start, Len(tokens)))))
    ELSE IF labels[i + 1] # cur
         THEN seg_loop_stale(tokens, labels, i + 1, cur, i,
                             Append(segs_, Seg(cur, start, i, join(Slice(tokens, start, i)))))
         ELSE seg_loop_stale(tokens, labels, i + 1, cur, start, segs_)

segments_stale_cur(tokens, labels) ==
    IF tokens = <<>> THEN Ok(<<>>)
    ELSE IF Len(labels) < Len(tokens) THEN Raise("IndexError")
    ELSE Ok(seg_loop_stale(tokens, labels, 1, labels[1], 0, <<>>))

segments(tokens, labels) ==
    IF tokens = <<>> THEN Ok(<<>>)
    ELSE IF Len(labels) < Len(tokens) THEN Raise("IndexError")
    ELSE Ok(seg_loop(tokens, labels, 1, labels[1], 0, <<>>))

---------------------------------------------------------------------------
(* run_analysis, one step per stage *)

\* the scorer run_analysis builds from two corpora
MakeScorer(tE, tS, kk, eps) ==
    LET mE == train(tE, kk)
        mS == train(tS, kk)
    IN Scorer(mE, mS, mE.vocab \cup mS.vocab, eps)

Init ==
    /\ pc = "start"
    /\ tokE \in Corpora
    /\ tokS \in Corpora
    /\ tokA \in SeqsUpTo(Tok, MaxTokens)
    /\ window \in WindowSet
    /\ step \in StepSet
    /\ k \in KSet
    /\ eps_neither \in EpsSet
    /\ modelE = NoModel
    /\ modelS = NoModel
    /\ vocab_union = {}
    /\ effective_window = 0
    /\ rows = <<>>
    /\ wlabs = <<>>
    /\ segs = <<>>
    /\ raised = "none"
    /\ call = [fn |-> "none"]

\* modelE, modelS, vocab_union
Train ==
    /\ pc = "start"
    /\ modelE' = train(tokE, k)
    /\ modelS' = train(tokS, k)
    /\ vocab_union' = modelE'.vocab \cup modelS'.vocab
    /\ pc' = "trained"
    /\ UNCHANGED <<tokE, tokS, tokA, window, step, k, eps_neither,
                   effective_window, rows, wlabs, segs, raised, call>>

\* effective_window, rows
Scan ==
    /\ pc = "trained"
    /\ effective_window' = IF tokA # <<>> THEN Max(2, Min(window, Len(tokA))) ELSE window
    /\ LET scorer == Scorer(modelE, modelS, vocab_union, eps_neither)
       IN \E res \in sliding_window_outcomes(tokA, scorer, effective_window', step) :
             IF res.exc # "none"
             THEN /\ raised' = res.exc
                  /\ pc' = "raised"
                  /\ rows' = rows
             ELSE /\ rows' = res.val
                  /\ pc' = "scanned"
                  /\ raised' = raised
    /\ UNCHANGED <<tokE, tokS, tokA, window, step, k, eps_neither, modelE, modelS,
                   vocab_union, wlabs, segs, call>>

\* wlabs
Aggregate ==
    /\ pc = "scanned"
    /\ LET scorer == Scorer(modelE, modelS, vocab_union, eps_neither)
       IN \E res \in word_level_outcomes(tokA, rows, scorer) :
             IF res.exc # "none"
             THEN /\ raised' = res.exc
                  /\ pc' = "raised"
                  /\ wlabs' = wlabs
             ELSE /\ wlabs' = res.val
                  /\ pc' = "labelled"
                  /\ raised' = raised
    /\ UNCHANGED <<tokE, tokS, tokA, window, step, k, eps_neither, modelE, modelS,
                   vocab_union, effective_window, rows, segs, call>>

\* segs
Segment ==
    /\ pc = "labelled"
    /\ LET res == segments(tokA, wlabs)
       IN IF res.exc # "none"
          THEN /\ raised' = res.exc
               /\ pc' = "raised"
               /\ segs' = segs
          ELSE /\ segs' = res.val
               /\ pc' = "done"
               /\ raised' = raised
    /\ UNCHANGED <<tokE, tokS, tokA, window, step, k, eps_neither, modelE, modelS,
                   vocab_union, effective_window, rows, wlabs, call>>

Next == Train \/ Scan \/ Aggregate \/ Segment

Spec == Init /\ [][Next]_vars

---------------------------------------------------------------------------
(* Direct calls of the functions, one call per behaviour *)

Run == <<pc, tokE, tokS, tokA, window, step, k, eps_neither, modelE, modelS,
         vocab_union, effective_window, rows, wlabs, segs, raised>>

InitCalls ==
    /\ pc = "idle"
    /\ tokE = <<>> /\ tokS = <<>> /\ tokA = <<>>
    /\ window = 2 /\ step = 1 /\ k = 1 /\ eps_neither = 0
    /\ modelE = NoModel /\ modelS = NoModel
    /\ vocab_union = {}
    /\ effective_window = 0
    /\ rows = <<>> /\ wlabs = <<>> /\ segs = <<>>
    /\ raised = "none"
    /\ call = [fn |-> "none"]

\* hand-made window reports over n tokens: a range within [0, n), a whole-bit score
Reports(n) ==
    {[start |-> a, end |-> b, bits |-> s] :
        a \in 0 .. n - 1, b \in 1 .. n, s \in ScoreBits}

AsWindows(reports) ==
    [j \in DOMAIN reports |->
        [start |-> reports[j].start, end |-> reports[j].end,
         score |-> FromBits(reports[j].bits)]]

CallTrain ==
    /\ call.fn = "none"
    /\ \E tokens \in SeqsUpTo(Tok, MaxTokens), kk \in KSet :
          call' = [fn |-> "train", tokens |-> tokens, k |-> kk,
                   ret |-> train(tokens, kk)]
    /\ UNCHANGED Run

CallProb ==
    /\ call.fn = "none"
    /\ \E tokens \in SeqsUpTo(Tok, MaxTokens), kk \in KSet,
          w1 \in Words, w2 \in Words, V \in VSet :
          call' = [fn |-> "prob", tokens |-> tokens, k |-> kk, w1 |-> w1, w2 |-> w2,
                   V |-> V, ret |-> prob(train(tokens, kk), w1, w2, V)]
    /\ UNCHANGED Run

CallLabel ==
    /\ call.fn = "none"
    /\ \E eps \in EpsSet, bits \in LabelBits, cnt \in 1 .. MaxReports, e \in Dir :
          LET score == [DivBy(FromBits(bits), cnt) EXCEPT !.e = e]
          IN call' = [fn |-> "label", eps |-> eps, bits |-> bits, cnt |-> cnt, e |-> e,
                      ret |-> label(MakeScorer(<<>>, <<>>, 1, eps), score)]
    /\ UNCHANGED Run

CallScan ==
    /\ call.fn = "none"
    /\ \E tokens \in SeqsUpTo(Tok, MaxTokens), tE \in Corpora, tS \in Corpora,
          kk \in KSet, eps \in EpsSet, win \in WindowSet, stp \in StepSet :
          \E res \in sliding_window_outcomes(tokens, MakeScorer(tE, tS, kk, eps), win, stp) :
             call' = [fn |-> "sliding_window_scores", tokens |-> tokens, tE |-> tE,
                      tS |-> tS, k |-> kk, eps |-> eps, window |-> win, step |-> stp,
                      ret |-> res]
    /\ UNCHANGED Run

CallAggregate ==
    /\ call.fn = "none"
    /\ \E tokens \in SeqsUpTo({"a"}, MaxCovered), eps \in EpsSet :
          \E reports \in SeqsUpTo({r \in Reports(Len(tokens)) : r.start < r.end},
                                  MaxReports) :
             \E res \in word_level_outcomes(tokens, AsWindows(reports),
                                             MakeScorer(<<>>, <<>>, 1, eps)) :
                call' = [fn |-> "word_level_labels", tokens |-> tokens, eps |-> eps,
                         reports |-> reports, ret |-> res]
    /\ UNCHANGED Run

CallSegments ==
    /\ call.fn = "none"
    /\ \E tokens \in SeqsUpTo(Tok, MaxTokens), labels \in SeqsUpTo(Labels, MaxTokens) :
          call' = [fn |-> "segments", tokens |-> tokens, labels |-> labels,
                   ret |-> segments(tokens, labels)]
    /\ UNCHANGED Run

NextCalls ==
    CallTrain \/ CallProb \/ CallLabel \/ CallScan \/ CallAggregate \/ CallSegments

SpecCalls == InitCalls /\ [][NextCalls]_vars

---------------------------------------------------------------------------
(* Properties *)

\* the sum of the values of a function with a finite domain
RECURSIVE SumFn(_)
SumFn(f) ==
    IF DOMAIN f = {} THEN 0
    ELSE LET x == CHOOSE y \in DOMAIN f : TRUE
         IN f[x] + SumFn([y \in DOMAIN f \ {x} |-> f[y]])

\* the concatenation of a sequence of sequences
RECURSIVE Flatten(_)
Flatten(ss) == IF ss = <<>> THEN <<>> ELSE Head(ss) \o Flatten(Tail(ss))

IsScan == call.fn = "sliding_window_scores"
IsSegments == call.fn = "segments" /\ Len(call.labels) = Len(call.tokens)

\* C1: a direct call of sliding_window_scores with a scorer smoothed by k > 0,
\* a window with 2 <= window <= n and a step >= 1 returns exactly
\* floor((n - window) / step) + 1 reports, each with end - start = window.
C1_WindowCount ==
    (IsScan /\ call.k > 0 /\ call.step >= 1
        /\ 2 <= call.window /\ call.window <= Len(call.tokens))
    => /\ call.ret.exc = "none"
       /\ Len(call.ret.val) = (Len(call.tokens) - call.window) \div call.step + 1
       /\ \A j \in DOMAIN call.ret.val :
             call.ret.val[j].end - call.ret.val[j].start = call.window

C1_Witness ==
    /\ IsScan /\ call.k > 0
    /\ Len(call.tokens) = 4 /\ call.window = 2 /\ call.step = 2
    /\ call.ret.exc = "none" /\ Len(call.ret.val) = 2

\* C2: sliding_window_scores returns the empty list, raising nothing, for fewer
\* than 2 tokens (whatever the step and the scorer); for 2 <= n < window, a step
\* >= 1 and a scorer smoothed by k > 0 it returns exactly the one report [0, n).
C2_ShortInput ==
    IsScan =>
       /\ Len(call.tokens) < 2 => call.ret = Ok(<<>>)
       /\ (2 <= Len(call.tokens) /\ Len(call.tokens) < call.window
             /\ call.step >= 1 /\ call.k > 0)
          => /\ call.ret.exc = "none"
             /\ Len(call.ret.val) = 1
             /\ call.ret.val[1].start = 0
             /\ call.ret.val[1].end = Len(call.tokens)

C2_Witness ==
    /\ IsScan /\ call.k > 0 /\ call.step = 2
    /\ Len(call.tokens) = 3 /\ call.window = 4
    /\ call.ret.exc = "none" /\ Len(call.ret.val) = 1 /\ call.ret.val[1].end = 3

\* C3: for tokens and labels of the same length the segments are in left-to-right
\* order, contiguous and non-overlapping (the first starts at 0, each starts where
\* the previous one ends, the last ends at the token count), cover every position
\* exactly once, and their token ranges, and their texts, rebuild the tokens.
C3_SegmentsPartition ==
    IsSegments =>
       /\ call.ret.exc = "none"
       /\ LET sg == call.ret.val
              n == Len(call.tokens)
          IN /\ n = 0 => sg = <<>>
             /\ n > 0 => /\ sg # <<>>
                          /\ sg[1].start = 0
                          /\ sg[Len(sg)].end = n
             /\ \A j \in DOMAIN sg : sg[j].start < sg[j].end
             /\ \A j \in 1 .. Len(sg) - 1 : sg[j + 1].start = sg[j].end
             /\ \A i \in 0 .. n - 1 :
                   Cardinality({j \in DOMAIN sg : sg[j].start <= i /\ i < sg[j].end}) = 1
             /\ Flatten([j \in DOMAIN sg |-> Slice(call.tokens, sg[j].start, sg[j].end)])
                   = call.tokens
             /\ join([j \in DOMAIN sg |-> sg[j].text]) = join(call.tokens)

C3_Witness ==
    /\ IsSegments
    /\ call.tokens = <<"a", "b", "b", "a">>
    /\ call.labels = <<"EMINESCU", "NEITHER", "NEITHER", "STANESCU">>
    /\ Len(call.ret.val) = 3
    /\ call.ret.val[2] = Seg("NEITHER", 1, 3, "b b")

LabelChanges(labels) == Cardinality({i \in 2 .. Len(labels) : labels[i] # labels[i - 1]})

MaximalRuns(sg, labels) ==
    /\ \A j \in DOMAIN sg :
          \A i \in sg[j].start .. sg[j].end - 1 : labels[i + 1] = sg[j].label
    /\ \A j \in 1 .. Len(sg) - 1 : sg[j + 1].label # sg[j].label

\* C4 as stated: for every token sequence, the empty one included, there are
\* 1 + (number of label changes) segments, each a maximal run.
C4_Original ==
    IsSegments =>
       /\ Len(call.ret.val) = 1 + LabelChanges(call.labels)
       /\ MaximalRuns(call.ret.val, call.labels)

\* C4 amended: for every non-empty token sequence there are 1 + (number of label
\* changes) segments, and for the empty one there are none; every segment is a
\* maximal run.
C4_SegmentCount ==
    IsSegments =>
       /\ call.tokens # <<>> => Len(call.ret.val) = 1 + LabelChanges(call.labels)
       /\ call.tokens = <<>> => call.ret.val = <<>>
       /\ MaximalRuns(call.ret.val, call.labels)

C4_Witness ==
    /\ IsSegments
    /\ call.labels = <<"EMINESCU", "EMINESCU", "STANESCU", "EMINESCU">>
    /\ Len(call.ret.val) = 3

\* the score of a label call, a float next to bits/cnt, is above (below) t bits
Above(t) == call.bits > t * call.cnt \/ (call.bits = t * call.cnt /\ call.e > 0)
Below(t) == call.bits < t * call.cnt \/ (call.bits = t * call.cnt /\ call.e < 0)

\* C5: for eps_neither >= 0 and every score (bits/cnt, or the float just above or
\* just below it), label returns EMINESCU exactly when the score is above
\* eps_neither, STANESCU exactly when it is below -eps_neither and NEITHER
\* otherwise; the two boundary scores are NEITHER and their neighbours are not.
C5_LabelBand ==
    (call.fn = "label" /\ call.eps >= 0) =>
       /\ call.ret = "EMINESCU" <=> Above(call.eps)
       /\ call.ret = "STANESCU" <=> Below(-call.eps)
       /\ call.ret = "NEITHER" <=> ~Above(call.eps) /\ ~Below(-call.eps)

C5_Witness ==
    /\ call.fn = "label" /\ call.eps = 1
    /\ call.bits = 2 /\ call.cnt = 2 /\ call.e = 0
    /\ call.ret = "NEITHER"

\* the label the code order gives a mean of total/cnt bits
LabelOfMean(total, cnt, eps) ==
    IF total > eps * cnt THEN "EMINESCU"
    ELSE IF total < -(eps * cnt) THEN "STANESCU"
    ELSE "NEITHER"

Covering(reports, i) == {j \in DOMAIN reports : reports[j].start <= i /\ i < reports[j].end}

\* C6: for n tokens and reports with ranges within [0, n), word_level_labels
\* returns n labels; the label of a covered position is the label of the mean of
\* the scores of the windows covering it, and with eps_neither >= 0 an uncovered
\* position is NEITHER.
C6_MeanLabels ==
    call.fn = "word_level_labels" =>
       /\ call.ret.exc = "none"
       /\ Len(call.ret.val) = Len(call.tokens)
       /\ \A i \in 0 .. Len(call.tokens) - 1 :
             LET cov == Covering(call.reports, i)
             IN IF cov # {}
                THEN call.ret.val[i + 1] =
                        LabelOfMean(SumFn([j \in cov |-> call.reports[j].bits]),
                                    Cardinality(cov), call.eps)
                ELSE call.ret.val[i + 1] = LabelOfMean(0, 1, call.eps)
                     /\ (call.eps >= 0 => call.ret.val[i + 1] = "NEITHER")

C6_Witness ==
    /\ call.fn = "word_level_labels" /\ call.eps = 1
    /\ Len(call.tokens) = 3 /\ Len(call.reports) = 2
    /\ Covering(call.reports, 0) = {1}
    /\ Covering(call.reports, 1) = {1, 2}
    /\ Covering(call.reports, 2) = {}
    /\ call.reports[1].bits = 3 /\ call.reports[2].bits = -3
    /\ call.ret.val = <<"EMINESCU", "NEITHER", "NEITHER">>

\* C7 as stated: a run given step < 1 or k <= 0 trains no model and produces no
\* window report, label or segment.
C7_MalformedConfigRejected ==
    (step < 1 \/ k <= 0) =>
       /\ pc \in {"start", "raised"}
       /\ modelE = NoModel /\ modelS = NoModel
       /\ rows = <<>> /\ wlabs = <<>> /\ segs = <<>>

\* C8: in every trained model the context count of a word is the sum of the
\* counts of the bigrams it leads, and 0 for </s>.
C8_ContextSums ==
    call.fn = "train" =>
       /\ \A t \in Words \cup DOMAIN call.ret.context :
             Count(call.ret.context, t) =
                SumFn([key \in {b \in DOMAIN call.ret.bigram : b[1] = t} |->
                          call.ret.bigram[key]])
       /\ Count(call.ret.context, EOS) = 0

C8_Witness ==
    /\ call.fn = "train" /\ call.tokens = <<"a", "a">>
    /\ Count(call.ret.context, "a") = 2
    /\ Count(call.ret.bigram, <<"a", "a">>) = 1
    /\ Count(call.ret.bigram, <<"a", EOS>>) = 1

\* C9: with k > 0 and V >= 1, prob of any pair, seen or not, raises nothing and
\* is a ratio of a positive numerator and a positive denominator.
C9_ProbPositive ==
    (call.fn = "prob" /\ call.k > 0 /\ call.V >= 1) =>
       /\ call.ret.exc = "none"
       /\ call.ret.val.num > 0
       /\ call.ret.val.den > 0

C9_Witness ==
    /\ call.fn = "prob" /\ call.k = 1 /\ call.V = 4
    /\ call.tokens = <<"a">> /\ call.w1 = EOS /\ call.w2 = "b"
    /\ call.ret = Ok([num |-> 1, den |-> 4])

Covered == {i \in 0 .. Len(tokA) - 1 : Covering(rows, i) # {}}

\* C10: once run_analysis has its window reports for n >= 2 tokens and a step >= 1,
\* every report has 0 <= start < end <= n; with step <= effective window w the
\* covered positions are exactly 0 .. n - 1 - ((n - w) mod step); and with
\* eps_neither >= 0 every uncovered position is labelled NEITHER; no run ends in
\* an IndexError.
C10_Coverage ==
    /\ raised # "IndexError"
    /\ (pc \in {"scanned", "labelled", "done"} /\ Len(tokA) >= 2 /\ step >= 1) =>
       LET n == Len(tokA)
           w == Max(2, Min(effective_window, n))
       IN /\ \A j \in DOMAIN rows :
                0 <= rows[j].start /\ rows[j].start < rows[j].end /\ rows[j].end <= n
          /\ step <= w => Covered = 0 .. n - 1 - ((n - w) % step)
          /\ (pc \in {"labelled", "done"} /\ eps_neither >= 0) =>
                \A i \in (0 .. n - 1) \ Covered : wlabs[i + 1] = "NEITHER"

C10_Witness ==
    /\ pc = "done" /\ eps_neither = 0 /\ step = 2
    /\ Len(tokA) = 3 /\ effective_window = 2
    /\ Covered = {0, 1}
    /\ wlabs[1] = "EMINESCU" /\ wlabs[3] = "NEITHER"

=============================================================================
